---- MODULE Spec2Model ----
(***************************************************************************)
(* Academic-planning backend: the two route modules (api/disciplines.py    *)
(* and api/enrollments.py), the Database class each of them instantiates,  *)
(* the three JSON files both instances write, and the rules of             *)
(* business_logic.py that the routes call.                                 *)
(*                                                                         *)
(* Every route is an `async def` without an await that touches the store,  *)
(* so a handler runs to completion on the event loop: one action each.     *)
(* That is Spec.  CalcSpec is business_logic.py by itself: one of its      *)
(* static methods is called with arguments of its own and returns.         *)
(*                                                                         *)
(* Grades and averages are in hundredths (7.0 is 700).  An optional value  *)
(* is <<>> (None, or a missing key read with .get) or <<x>>.  A time token *)
(* "HH:MM" is the pair <<HH, MM>> of the integers int() reads from it.     *)
(***************************************************************************)
EXTENDS Integers, Sequences, FiniteSets, TLC

VARIABLES
    discDb,   \* the Database() of api/disciplines.py: [disciplines, semesters, enrollments]
    enrDb,    \* the Database() of api/enrollments.py: [disciplines, semesters, enrollments]
    files,    \* disciplines.json, semesters.json, enrollments.json, as last written
    last,     \* the request handled last and its response
    steps,    \* number of requests and restarts so far
    call      \* a direct call of a business_logic function: [fn, args, ret]

vars == <<discDb, enrDb, files, last, steps, call>>

\* ---------------------------------------------------------------- bounds

MaxSteps == 4
MaxBlocks == 2
MaxRequired == 3
MaxRecords == 3

\* ------------------------------------------------------------- constants

PASSING == 700
GRADE_MAX == 1000
HOURS_PER_DAY == 24
MINUTES_PER_HOUR == 60
PERIOD_MAX == 9
FINAL_EXAM_MIN == 300
DEFAULT_HOURS == 60

None == <<>>
Some(x) == <<x>>
IsNone(o) == o = <<>>
Val(o) == o[1]

\* ------------------------------------------------------- business_logic

\* ScheduleValidation.time_to_minutes: ValueError unless 0 <= HH < 24 and 0 <= MM < 60.
time_to_minutes(t) ==
    IF 0 <= t[1] /\ t[1] < HOURS_PER_DAY /\ 0 <= t[2] /\ t[2] < MINUTES_PER_HOUR
    THEN [raised |-> FALSE, minutes |-> t[1] * MINUTES_PER_HOUR + t[2]]
    ELSE [raised |-> TRUE, minutes |-> 0]

\* check_time_overlap asking whether the second period starts within the first.
check_time_overlap_SecondStartsWithin(start1, end1, start2, end2) ==
    LET s1 == time_to_minutes(start1)
        e1 == time_to_minutes(end1)
        s2 == time_to_minutes(start2)
        e2 == time_to_minutes(end2)
    IN  IF s1.raised \/ e1.raised \/ s2.raised \/ e2.raised
        THEN [raised |-> TRUE, overlap |-> FALSE]
        ELSE [raised |-> FALSE,
              overlap |-> s1.minutes <= s2.minutes /\ e1.minutes > s2.minutes]

\* check_time_overlap with <= and >=: blocks that only touch overlap as well.
check_time_overlap_Closed(start1, end1, start2, end2) ==
    LET s1 == time_to_minutes(start1)
        e1 == time_to_minutes(end1)
        s2 == time_to_minutes(start2)
        e2 == time_to_minutes(end2)
    IN  IF s1.raised \/ e1.raised \/ s2.raised \/ e2.raised
        THEN [raised |-> TRUE, overlap |-> FALSE]
        ELSE [raised |-> FALSE,
              overlap |-> s1.minutes <= e2.minutes /\ e1.minutes >= s2.minutes]

\* ScheduleValidation.check_time_overlap: the four conversions, then the comparison.
check_time_overlap(start1, end1, start2, end2) ==
    LET s1 == time_to_minutes(start1)
        e1 == time_to_minutes(end1)
        s2 == time_to_minutes(start2)
        e2 == time_to_minutes(end2)
    IN  IF s1.raised \/ e1.raised \/ s2.raised \/ e2.raised
        THEN [raised |-> TRUE, overlap |-> FALSE]
        ELSE [raised |-> FALSE,
              overlap |-> s1.minutes < e2.minutes /\ e1.minutes > s2.minutes]

NoConflict == [raised |-> FALSE, has_conflict |-> FALSE, info |-> <<>>]

\* SameDay without the comparison of the days.
SameDay_AnyDay(sch1, sch2) == TRUE

\* sch1.get('day') == sch2.get('day')
SameDay(sch1, sch2) == sch1.day = sch2.day

RECURSIVE ScanSchedules(_, _, _, _)
\* The nested loops of has_schedule_conflict from pair (i, j) on: the first pair on
\* the same day that overlaps ends the scan; a malformed time on a same-day pair raises.
ScanSchedules(sch1, sch2, i, j) ==
    IF i > Len(sch1) THEN NoConflict
    ELSE IF j > Len(sch2) THEN ScanSchedules(sch1, sch2, i + 1, 1)
    ELSE IF SameDay(sch1[i], sch2[j])
         THEN LET o == check_time_overlap(sch1[i].start, sch1[i].end,
                                          sch2[j].start, sch2[j].end)
              IN  IF o.raised
                  THEN [raised |-> TRUE, has_conflict |-> FALSE, info |-> <<>>]
                  ELSE IF o.overlap
                  THEN [raised |-> FALSE, has_conflict |-> TRUE,
                        info |-> <<[day |-> sch1[i].day,
                                    time1 |-> <<sch1[i].start, sch1[i].end>>,
                                    time2 |-> <<sch2[j].start, sch2[j].end>>]>>]
                  ELSE ScanSchedules(sch1, sch2, i, j + 1)
         ELSE ScanSchedules(sch1, sch2, i, j + 1)

\* has_schedule_conflict with the loops exchanged: the blocks of discipline 2 outside.
has_schedule_conflict_InnerFirst(discipline1_schedules, discipline2_schedules) ==
    LET r == ScanSchedules(discipline2_schedules, discipline1_schedules, 1, 1)
    IN  IF r.raised \/ ~r.has_conflict THEN r
        ELSE [r EXCEPT !.info = <<[day |-> r.info[1].day,
                                   time1 |-> r.info[1].time2,
                                   time2 |-> r.info[1].time1]>>]

\* ScheduleValidation.has_schedule_conflict
has_schedule_conflict(discipline1_schedules, discipline2_schedules) ==
    ScanSchedules(discipline1_schedules, discipline2_schedules, 1, 1)

\* IsMissing with <= for <: an average of exactly 7.0 does not satisfy.
IsMissing_AtThreshold(prereq_id, completed_disciplines) ==
    prereq_id \notin DOMAIN completed_disciplines
        \/ completed_disciplines[prereq_id] <= PASSING

\* The test of one prerequisite in check_prerequisites.
IsMissing(prereq_id, completed_disciplines) ==
    prereq_id \notin DOMAIN completed_disciplines
        \/ completed_disciplines[prereq_id] < PASSING

RECURSIVE AppendNew(_, _, _)
\* The loop of check_prerequisites, were a code appended to missing only once.
AppendNew(required, completed_disciplines, missing) ==
    IF required = <<>> THEN missing
    ELSE AppendNew(Tail(required), completed_disciplines,
                   IF IsMissing(Head(required), completed_disciplines)
                      /\ \A k \in 1..Len(missing) : missing[k] # Head(required)
                   THEN Append(missing, Head(required)) ELSE missing)

\* check_prerequisites that reports each missing code once.
check_prerequisites_Deduplicated(discipline_prerequisites, completed_disciplines) ==
    LET missing == AppendNew(discipline_prerequisites, completed_disciplines, <<>>)
    IN  [met |-> Len(missing) = 0, missing |-> missing]

\* PrerequisiteValidation.check_prerequisites: (all met, the missing codes in order).
check_prerequisites(discipline_prerequisites, completed_disciplines) ==
    LET missing == SelectSeq(discipline_prerequisites,
                             LAMBDA p : IsMissing(p, completed_disciplines))
    IN  [met |-> Len(missing) = 0, missing |-> missing]

\* ------------------------------------------------------------- database

\* One row of the default catalogue: two weekly blocks, no grades yet.
Row(code, name, professor, period, d1, s1, e1, d2, s2, e2, prerequisites) ==
    [code |-> code, name |-> name, professor |-> professor, period |-> period,
     hours |-> 60,
     schedules |-> <<[day |-> d1, start |-> <<s1, 0>>, end |-> <<e1, 0>>],
                     [day |-> d2, start |-> <<s2, 0>>, end |-> <<e2, 0>>]>>,
     prerequisites |-> prerequisites,
     n1 |-> None, n2 |-> None, n3 |-> None, media_final |-> None]

\* level1_disciplines and level2_disciplines of _initialize_default_data.
DefaultRows ==
    {Row("06418", "ALGEBRA VETORIAL E LINEAR PARA COMPUTACAO", "DM", 1,
         2, 16, 18, 4, 14, 16, <<>>),
     Row("06507", "CALCULO NI", "DM", 1, 1, 16, 18, 3, 14, 16, <<>>),
     Row("14044", "INTRODUCAO A CIENCIA DA COMPUTACAO", "Rafael Perazzo", 1,
         2, 14, 16, 5, 16, 18, <<>>),
     Row("14117", "INTRODUCAO A PROGRAMACAO I", "Pericles Miranda", 1,
         1, 14, 16, 4, 16, 18, <<>>),
     Row("14203", "MATEMATICA DISCRETA I", "Pablo Sampaio", 1,
         3, 16, 18, 5, 14, 16, <<>>),
     Row("06214", "ALGORITMOS", "TBD", 2, 2, 14, 16, 4, 16, 18, <<"14117">>),
     Row("06508", "CALCULO NII", "DM", 2, 1, 14, 16, 3, 16, 18, <<"06507">>),
     Row("14204", "MATEMATICA DISCRETA II", "Maigan Steffane", 2,
         3, 16, 18, 5, 14, 16, <<"14203">>)}

DefaultDisciplines ==
    [c \in {r.code : r \in DefaultRows} |-> CHOOSE r \in DefaultRows : r.code = c]

DefaultSemesters ==
    [s \in {"2024.1", "2024.2"} |->
        [code |-> s, status |-> IF s = "2024.1" THEN "Ativo" ELSE "Planejado"]]

EmptyStore == [disciplines |-> <<>>, semesters |-> <<>>, enrollments |-> <<>>]

\* f with key k bound to v (dict assignment).
Put(f, k, v) == [x \in DOMAIN f \cup {k} |-> IF x = k THEN v ELSE f[x]]

\* f without key k (del).
Drop(f, k) == [x \in DOMAIN f \ {k} |-> f[x]]

\* RemoveFirst that removes nothing.
RemoveFirst_Nothing(seq, x) == seq

\* list.remove(x): the first occurrence goes.
RemoveFirst(seq, x) ==
    LET i == CHOOSE k \in 1..Len(seq) : seq[k] = x /\ \A m \in 1..(k - 1) : seq[m] # x
    IN  [k \in 1..(Len(seq) - 1) |-> IF k < i THEN seq[k] ELSE seq[k + 1]]

InSeq(x, seq) == \E k \in 1..Len(seq) : seq[k] = x

\* Database._initialize_default_data, up to its _save_data.
initialize_default_data(store) ==
    [disciplines |-> [c \in DOMAIN store.disciplines \cup DOMAIN DefaultDisciplines |->
                        IF c \in DOMAIN DefaultDisciplines
                        THEN DefaultDisciplines[c] ELSE store.disciplines[c]],
     semesters   |-> [s \in DOMAIN store.semesters \cup DOMAIN DefaultSemesters |->
                        IF s \in DOMAIN DefaultSemesters
                        THEN DefaultSemesters[s] ELSE store.semesters[s]],
     enrollments |-> [s \in DOMAIN store.enrollments \cup DOMAIN DefaultSemesters |->
                        IF s \in DOMAIN DefaultSemesters
                        THEN <<>> ELSE store.enrollments[s]]]

\* Database.__init__: _load_data, then the default data (and a save) if no discipline
\* was loaded: [the instance's store, the files afterwards].
Database(onDisk) ==
    IF DOMAIN onDisk.disciplines = {}
    THEN [store |-> initialize_default_data(onDisk), disk |-> initialize_default_data(onDisk)]
    ELSE [store |-> onDisk, disk |-> onDisk]

\* Database.get_enrolled_disciplines: the records of the enrolled codes, in list order.
get_enrolled_disciplines(store, semester_code) ==
    IF semester_code \notin DOMAIN store.enrollments THEN <<>>
    ELSE LET kept == SelectSeq(store.enrollments[semester_code],
                               LAMBDA c : c \in DOMAIN store.disciplines)
         IN  [k \in 1..Len(kept) |-> store.disciplines[kept[k]]]

\* db_enroll_discipline without the test that the code is not yet in the list.
db_enroll_discipline_Unchecked(store, semester_code, discipline_code) ==
    IF semester_code \notin DOMAIN store.enrollments
    THEN [store |-> store, ret |-> FALSE, saved |-> FALSE]
    ELSE IF discipline_code \notin DOMAIN store.disciplines
    THEN [store |-> store, ret |-> FALSE, saved |-> FALSE]
    ELSE [store |-> [store EXCEPT !.enrollments[semester_code] =
                                      Append(@, discipline_code)],
          ret |-> TRUE, saved |-> TRUE]

\* db_enroll_discipline that puts the code at the head of the list.
db_enroll_discipline_AtHead(store, semester_code, discipline_code) ==
    IF semester_code \notin DOMAIN store.enrollments
    THEN [store |-> store, ret |-> FALSE, saved |-> FALSE]
    ELSE IF discipline_code \notin DOMAIN store.disciplines
    THEN [store |-> store, ret |-> FALSE, saved |-> FALSE]
    ELSE IF \A k \in 1..Len(store.enrollments[semester_code]) :
                store.enrollments[semester_code][k] # discipline_code
    THEN [store |-> [store EXCEPT !.enrollments[semester_code] =
                                      <<discipline_code>> \o @],
          ret |-> TRUE, saved |-> TRUE]
    ELSE [store |-> store, ret |-> FALSE, saved |-> FALSE]

\* Database.enroll_discipline: [store after, returned, whether _save_data ran].
db_enroll_discipline(store, semester_code, discipline_code) ==
    IF semester_code \notin DOMAIN store.enrollments
    THEN [store |-> store, ret |-> FALSE, saved |-> FALSE]
    ELSE IF discipline_code \notin DOMAIN store.disciplines
    THEN [store |-> store, ret |-> FALSE, saved |-> FALSE]
    ELSE IF ~InSeq(discipline_code, store.enrollments[semester_code])
    THEN [store |-> [store EXCEPT !.enrollments[semester_code] =
                                      Append(@, discipline_code)],
          ret |-> TRUE, saved |-> TRUE]
    ELSE [store |-> store, ret |-> FALSE, saved |-> FALSE]

\* ------------------------------------------------------ api/enrollments

\* The codes the requests carry: a default semester and a new one; three default
\* disciplines and a new one for the enrollment routes; a default discipline and a
\* new one for the discipline routes.
Semesters == {"2024.1", "2025.1"}
EnrollCodes == {"14117", "14044", "06214", "99999"}
Codes == {"14117", "99999"}

\* The completed map enroll_discipline builds from the store of its module.
completed_disciplines(store) ==
    LET done == {c \in DOMAIN store.disciplines :
                    /\ ~IsNone(store.disciplines[c].media_final)
                    /\ Val(store.disciplines[c].media_final) # 0
                    /\ Val(store.disciplines[c].media_final) >= PASSING}
    IN  [c \in done |-> Val(store.disciplines[c].media_final)]

\* MissingNames that keeps a code that does not resolve, under the code itself.
MissingNames_CodeForUnresolved(store, missing) ==
    [k \in 1..Len(missing) |->
        IF missing[k] \in DOMAIN store.disciplines
        THEN store.disciplines[missing[k]].name ELSE missing[k]]

\* missing_names of enroll_discipline: the names of the missing codes that resolve.
MissingNames(store, missing) ==
    LET found == SelectSeq(missing, LAMBDA c : c \in DOMAIN store.disciplines)
    IN  [k \in 1..Len(found) |-> store.disciplines[found[k]].name]

RECURSIVE FirstConflict(_, _, _)
\* The loop of enroll_discipline over the enrolled records from position k on.
FirstConflict(schedules, enrolled, k) ==
    IF k > Len(enrolled) THEN [raised |-> FALSE, has_conflict |-> FALSE, name |-> ""]
    ELSE LET r == has_schedule_conflict(schedules, enrolled[k].schedules)
         IN  IF r.raised
             THEN [raised |-> TRUE, has_conflict |-> FALSE, name |-> ""]
             ELSE IF r.has_conflict
             THEN [raised |-> FALSE, has_conflict |-> TRUE, name |-> enrolled[k].name]
             ELSE FirstConflict(schedules, enrolled, k + 1)

Response(op, sem, code, outcome, detail) ==
    [op |-> op, semester_code |-> sem, discipline_code |-> code,
     outcome |-> outcome, detail |-> detail]

\* Resolve with the two lookups in the other order.
Resolve_DisciplineFirst(store, semester_code, discipline_code) ==
    IF discipline_code \notin DOMAIN store.disciplines THEN "NotFoundDiscipline"
    ELSE IF semester_code \notin DOMAIN store.semesters THEN "NotFoundSemester"
    ELSE ""

\* The two lookups that open enroll_discipline: the 404 raised, or "" when both resolve.
Resolve(store, semester_code, discipline_code) ==
    IF semester_code \notin DOMAIN store.semesters THEN "NotFoundSemester"
    ELSE IF discipline_code \notin DOMAIN store.disciplines THEN "NotFoundDiscipline"
    ELSE ""

\* POST /api/enroll: [store after, outcome, detail, saved].
EnrollResult(store, semester_code, discipline_code) ==
    IF Resolve(store, semester_code, discipline_code) # ""
    THEN [store |-> store, outcome |-> Resolve(store, semester_code, discipline_code),
          detail |-> <<>>, saved |-> FALSE]
    ELSE
    LET discipline == store.disciplines[discipline_code]
        pre == check_prerequisites(discipline.prerequisites, completed_disciplines(store))
    IN  IF ~pre.met
        THEN [store |-> store, outcome |-> "PrerequisitesNotMet",
              detail |-> MissingNames(store, pre.missing), saved |-> FALSE]
        ELSE
        LET conflict == FirstConflict(discipline.schedules,
                                      get_enrolled_disciplines(store, semester_code), 1)
        IN  IF conflict.raised
            THEN [store |-> store, outcome |-> "ValueError", detail |-> <<>>, saved |-> FALSE]
            ELSE IF conflict.has_conflict
            THEN [store |-> store, outcome |-> "ScheduleConflict",
                  detail |-> <<conflict.name>>, saved |-> FALSE]
            ELSE
            LET e == db_enroll_discipline(store, semester_code, discipline_code)
            IN  [store |-> e.store,
                 outcome |-> IF e.ret THEN "EnrolledSuccessfully" ELSE "AlreadyEnrolled",
                 detail |-> <<>>, saved |-> e.saved]

enroll_discipline(semester_code, discipline_code) ==
    LET r == EnrollResult(enrDb, semester_code, discipline_code)
    IN  /\ steps < MaxSteps
        /\ enrDb' = r.store
        /\ files' = IF r.saved THEN r.store ELSE files
        /\ last' = Response("enroll", semester_code, discipline_code, r.outcome, r.detail)
        /\ steps' = steps + 1
        /\ UNCHANGED <<discDb, call>>

\* Database.unenroll_discipline: [store after, returned, whether _save_data ran].
db_unenroll_discipline(store, semester_code, discipline_code) ==
    IF semester_code \notin DOMAIN store.enrollments
    THEN [store |-> store, ret |-> FALSE, saved |-> FALSE]
    ELSE IF InSeq(discipline_code, store.enrollments[semester_code])
    THEN [store |-> [store EXCEPT !.enrollments[semester_code] =
                                      RemoveFirst(@, discipline_code)],
          ret |-> TRUE, saved |-> TRUE]
    ELSE [store |-> store, ret |-> FALSE, saved |-> FALSE]

\* POST /api/unenroll
unenroll_discipline(semester_code, discipline_code) ==
    LET r == db_unenroll_discipline(enrDb, semester_code, discipline_code)
    IN  /\ steps < MaxSteps
        /\ enrDb' = r.store
        /\ files' = IF r.saved THEN r.store ELSE files
        /\ last' = Response("unenroll", semester_code, discipline_code,
                            IF r.ret THEN "Removed" ELSE "NotEnrolled", <<>>)
        /\ steps' = steps + 1
        /\ UNCHANGED <<discDb, call>>

\* Database.create_semester: the record is stored and the enrollment list set to [].
db_create_semester(store, semester) ==
    [store EXCEPT !.semesters = Put(@, semester.code, semester),
                  !.enrollments = Put(@, semester.code, <<>>)]

\* POST /api/semesters
create_semester(semester) ==
    /\ steps < MaxSteps
    /\ IF semester.code \in DOMAIN enrDb.semesters
       THEN /\ last' = Response("create_semester", semester.code, "", "AlreadyExists", <<>>)
            /\ UNCHANGED <<enrDb, files>>
       ELSE /\ enrDb' = db_create_semester(enrDb, semester)
            /\ files' = enrDb'
            /\ last' = Response("create_semester", semester.code, "", "Created", <<>>)
    /\ steps' = steps + 1
    /\ UNCHANGED <<discDb, call>>

\* ------------------------------------------------------ api/disciplines

\* DataValidation.validate_discipline_data, as discipline_validation calls it.
validate_discipline_data(code, name, professor, period, hours) ==
    /\ code # ""
    /\ name # ""
    /\ professor # ""
    /\ 1 <= period /\ period <= PERIOD_MAX
    /\ hours > 0

\* The bodies POST /api/disciplines is given (prerequisites and schedules left at
\* their default []): a valid one and one with hours = 0.
CreateBodies ==
    {[name |-> "NOVA", professor |-> "P", period |-> 1, hours |-> h,
      prerequisites |-> <<>>, schedules |-> <<>>] : h \in {0, 60}}

\* Database.create_discipline: DisciplineCreate.dict() is stored under its code.
db_create_discipline(store, code, body) ==
    [store EXCEPT !.disciplines =
        Put(@, code, [code |-> code, name |-> body.name, professor |-> body.professor,
                      period |-> body.period, hours |-> body.hours,
                      schedules |-> body.schedules, prerequisites |-> body.prerequisites,
                      n1 |-> None, n2 |-> None, n3 |-> None, media_final |-> None])]

RECURSIVE bulk_create_disciplines(_, _)
\* Database.bulk_create_disciplines: each discipline whose code is not in the store
\* is created, in order; no route calls it.
bulk_create_disciplines(store, disciplines) ==
    IF disciplines = <<>> THEN store
    ELSE LET disc == Head(disciplines)
         IN  bulk_create_disciplines(
                 IF disc.code \notin DOMAIN store.disciplines
                 THEN db_create_discipline(store, disc.code, disc)
                 ELSE store,
                 Tail(disciplines))

\* POST /api/disciplines without the look-up of the code.
create_discipline_Unchecked(code, body) ==
    /\ steps < MaxSteps
    /\ IF ~validate_discipline_data(code, body.name, body.professor,
                                    body.period, body.hours)
       THEN /\ last' = Response("create_discipline", "", code, "Invalid", <<>>)
            /\ UNCHANGED <<discDb, files>>
       ELSE /\ discDb' = db_create_discipline(discDb, code, body)
            /\ files' = discDb'
            /\ last' = Response("create_discipline", "", code, "Created", <<>>)
    /\ steps' = steps + 1
    /\ UNCHANGED <<enrDb, call>>

\* POST /api/disciplines
create_discipline(code, body) ==
    /\ steps < MaxSteps
    /\ IF code \in DOMAIN discDb.disciplines
       THEN /\ last' = Response("create_discipline", "", code, "AlreadyExists", <<>>)
            /\ UNCHANGED <<discDb, files>>
       ELSE IF ~validate_discipline_data(code, body.name, body.professor,
                                         body.period, body.hours)
       THEN /\ last' = Response("create_discipline", "", code, "Invalid", <<>>)
            /\ UNCHANGED <<discDb, files>>
       ELSE /\ discDb' = db_create_discipline(discDb, code, body)
            /\ files' = discDb'
            /\ last' = Response("create_discipline", "", code, "Created", <<>>)
    /\ steps' = steps + 1
    /\ UNCHANGED <<enrDb, call>>

\* dict.update: the keys of updates replace those of the record.
Merge(rec, updates) ==
    [f \in DOMAIN rec \cup DOMAIN updates |-> IF f \in DOMAIN updates THEN updates[f] ELSE rec[f]]

\* Database.update_discipline on a code that exists.
db_update_discipline(store, code, updates) ==
    [store EXCEPT !.disciplines[code] = Merge(@, updates)]

\* The bodies PUT /api/disciplines/{code} is given (DisciplineUpdate, the set fields
\* only): a schedule whose first block has no valid hour, a schedule on Tuesday
\* 15:00-17:00, and two prerequisite lists.
UpdateBodies ==
    {[schedules |-> <<[day |-> 1, start |-> <<25, 0>>, end |-> <<26, 0>>],
                      [day |-> 1, start |-> <<14, 0>>, end |-> <<16, 0>>]>>],
     [schedules |-> <<[day |-> 2, start |-> <<15, 0>>, end |-> <<17, 0>>]>>],
     [prerequisites |-> <<"99999">>],
     [prerequisites |-> <<"14203", "99999", "06507">>]}

\* PUT /api/disciplines/{code}
update_discipline(code, updates) ==
    /\ steps < MaxSteps
    /\ IF code \notin DOMAIN discDb.disciplines
       THEN /\ last' = Response("update_discipline", "", code, "NotFoundDiscipline", <<>>)
            /\ UNCHANGED <<discDb, files>>
       ELSE /\ discDb' = db_update_discipline(discDb, code, updates)
            /\ files' = discDb'
            /\ last' = Response("update_discipline", "", code, "Updated", <<>>)
    /\ steps' = steps + 1
    /\ UNCHANGED <<enrDb, call>>

\* Database.delete_discipline on a code that exists: the record goes, and the code
\* leaves every enrollment list of this instance.
db_delete_discipline(store, code) ==
    [store EXCEPT !.disciplines = Drop(@, code),
                  !.enrollments = [s \in DOMAIN @ |->
                                     IF InSeq(code, @[s]) THEN RemoveFirst(@[s], code)
                                     ELSE @[s]]]

\* DELETE /api/disciplines/{code}
delete_discipline(code) ==
    /\ steps < MaxSteps
    /\ IF code \notin DOMAIN discDb.disciplines
       THEN /\ last' = Response("delete_discipline", "", code, "NotFoundDiscipline", <<>>)
            /\ UNCHANGED <<discDb, files>>
       ELSE /\ discDb' = db_delete_discipline(discDb, code)
            /\ files' = discDb'
            /\ last' = Response("delete_discipline", "", code, "Deleted", <<>>)
    /\ steps' = steps + 1
    /\ UNCHANGED <<enrDb, call>>

\* round(x, 2) of a value in thousandths, as the set of results in hundredths: a
\* value halfway between two hundredths goes to either neighbour, whichever the
\* binary float lies nearer to (round(7.005, 2) = 7.0 and round(0.005, 2) = 0.01).
Round2(thousandths) ==
    LET r == thousandths % 10
        base == (thousandths - r) \div 10
    IN  IF r < 5 THEN {base} ELSE IF r > 5 THEN {base + 1} ELSE {base, base + 1}

Max2(a, b) == IF a >= b THEN a ELSE b
Min2(a, b) == IF a <= b THEN a ELSE b

\* TwoLargestSum with the sort ascending: the two smallest grades.
TwoLargestSum_Ascending(n1, n2, n3) == n1 + n2 + n3 - Max2(n1, Max2(n2, n3))

\* notes.sort(reverse=True); notes[0] + notes[1]
TwoLargestSum(n1, n2, n3) == n1 + n2 + n3 - Min2(n1, Min2(n2, n3))

\* calculate_ufrpe_average without the sort: the mean of the first two grades.
calculate_ufrpe_average_Unsorted(n1, n2, n3) ==
    IF \E n \in {n1, n2, n3} : ~(0 <= n /\ n <= GRADE_MAX)
    THEN [raised |-> TRUE, results |-> {}]
    ELSE [raised |-> FALSE, results |-> Round2(5 * (n1 + n2))]

\* AcademicCalculations.calculate_ufrpe_average: ValueError outside [0, 10], else
\* the rounded mean of the two largest grades.
calculate_ufrpe_average(n1, n2, n3) ==
    IF \E n \in {n1, n2, n3} : ~(0 <= n /\ n <= GRADE_MAX)
    THEN [raised |-> TRUE, results |-> {}]
    ELSE [raised |-> FALSE, results |-> Round2(5 * TwoLargestSum(n1, n2, n3))]

\* Database.set_grades storing the first grade alone.
db_set_grades_FirstOnly(store, code, n1, n2, n3) ==
    [store EXCEPT !.disciplines[code] = Merge(@, [n1 |-> Some(n1)])]

\* Database.set_grades on a code that exists.
db_set_grades(store, code, n1, n2, n3) ==
    [store EXCEPT !.disciplines[code] =
        Merge(@, [n1 |-> Some(n1), n2 |-> Some(n2), n3 |-> Some(n3)])]

\* The bodies POST /api/disciplines/{code}/grades is given (GradesRequest).
GradeBodies ==
    {[n1 |-> Some(700), n2 |-> Some(701), n3 |-> Some(0)],
     [n1 |-> Some(600), n2 |-> Some(500), n3 |-> Some(700)],
     [n1 |-> None,      n2 |-> Some(700), n3 |-> Some(700)],
     [n1 |-> Some(1100), n2 |-> Some(700), n3 |-> Some(700)],
     [n1 |-> Some(700), n2 |-> Some(-1),  n3 |-> Some(700)]}

\* POST /api/disciplines/{code}/grades
set_grades(code, grades) ==
    /\ steps < MaxSteps
    /\ IF code \notin DOMAIN discDb.disciplines
       THEN /\ last' = Response("set_grades", "", code, "NotFoundDiscipline", <<>>)
            /\ UNCHANGED <<discDb, files>>
       ELSE IF IsNone(grades.n1) \/ IsNone(grades.n2) \/ IsNone(grades.n3)
       THEN /\ last' = Response("set_grades", "", code, "GradesRequired", <<>>)
            /\ UNCHANGED <<discDb, files>>
       ELSE LET avg == calculate_ufrpe_average(Val(grades.n1), Val(grades.n2), Val(grades.n3))
            IN  IF avg.raised
                THEN /\ last' = Response("set_grades", "", code, "ValueError", <<>>)
                     /\ UNCHANGED <<discDb, files>>
                ELSE \E average \in avg.results :
                     /\ discDb' = db_update_discipline(
                                      db_set_grades(discDb, code, Val(grades.n1),
                                                    Val(grades.n2), Val(grades.n3)),
                                      code, [media_final |-> Some(average)])
                     /\ files' = discDb'
                     /\ last' = Response("set_grades", "", code, "Graded", <<average>>)
    /\ steps' = steps + 1
    /\ UNCHANGED <<enrDb, call>>

\* CSVImporter.parse_csv on one data row: a row with an empty code is skipped at
\* line 69; any other row reaches DataValidation.validate_day_of_week at line 94,
\* which business_logic.py does not define, and the AttributeError is caught at
\* line 136: the row is skipped as well.
ParseRow(row) == IF row.code = "" THEN <<>> ELSE <<>>

RECURSIVE parse_csv(_)
parse_csv(rows) ==
    IF rows = <<>> THEN <<>> ELSE ParseRow(Head(rows)) \o parse_csv(Tail(rows))

\* The files POST /api/disciplines/import/csv is given, as their data rows.
CsvFiles == {<<[code |-> "99999", name |-> "NOVA"]>>}

RECURSIVE CreateNew(_, _)
\* The loop of import_csv: each parsed discipline whose code is new is created.
CreateNew(store, disciplines) ==
    IF disciplines = <<>> THEN store
    ELSE IF Head(disciplines).code \in DOMAIN store.disciplines
    THEN CreateNew(store, Tail(disciplines))
    ELSE CreateNew(db_create_discipline(store, Head(disciplines).code, Head(disciplines)),
                   Tail(disciplines))

\* POST /api/disciplines/import/csv
import_csv(rows) ==
    /\ steps < MaxSteps
    /\ discDb' = CreateNew(discDb, parse_csv(rows))
    /\ files' = IF discDb' # discDb THEN discDb' ELSE files
    /\ last' = Response("import_csv", "", "", "Imported", <<>>)
    /\ steps' = steps + 1
    /\ UNCHANGED <<enrDb, call>>

\* ------------------------------------------------------------ the system

\* No function of business_logic is being called from outside the routes.
NoCall == [fn |-> "", args |-> <<>>, ret |-> <<>>]

\* main.py imports api.disciplines, then api.enrollments: each builds its own
\* Database() over the same data directory.
Restart ==
    LET first == Database(files)
        second == Database(first.disk)
    IN  /\ steps < MaxSteps
        /\ discDb' = first.store
        /\ enrDb' = second.store
        /\ files' = second.disk
        /\ last' = Response("restart", "", "", "", <<>>)
        /\ steps' = steps + 1
        /\ UNCHANGED call

Init ==
    LET first == Database(EmptyStore)
        second == Database(first.disk)
    IN  /\ discDb = first.store
        /\ enrDb = second.store
        /\ files = second.disk
        /\ last = Response("start", "", "", "", <<>>)
        /\ steps = 0
        /\ call = NoCall

Next ==
    \/ \E s \in Semesters, c \in EnrollCodes : enroll_discipline(s, c)
    \/ \E s \in Semesters, c \in EnrollCodes : unenroll_discipline(s, c)
    \/ \E s \in Semesters : create_semester([code |-> s, status |-> "Planejado"])
    \/ \E c \in Codes, b \in CreateBodies : create_discipline(c, b)
    \/ \E c \in Codes, u \in UpdateBodies : update_discipline(c, u)
    \/ \E c \in Codes : delete_discipline(c)
    \/ \E c \in Codes, g \in GradeBodies : set_grades(c, g)
    \/ \E f \in CsvFiles : import_csv(f)
    \/ Restart

Spec == Init /\ [][Next]_vars

\* ------------------------------------- business_logic, called directly

\* The functions of business_logic are static methods without state: a caller hands
\* one its arguments, and it returns or raises.  The stores take no part.
Calling(fn, args) == [fn |-> fn, args |-> args, ret |-> <<>>]
Returned(value) == [raised |-> FALSE, value |-> value]
Raised == [raised |-> TRUE, value |-> <<>>]
Pending(fn) == call.fn = fn /\ call.ret = <<>>
Return(r) == call' = [call EXCEPT !.ret = <<r>>]
StoresIdle == UNCHANGED <<discDb, enrDb, files, last, steps>>

\* Grades in hundredths: the ends of [0, 10], the values next to them, and the
\* thresholds 3.0 and 7.0 with their neighbours.
GradeInputs == {-1, 0, 300, 699, 700, 701, 1000, 1001}

Given_calculate_ufrpe_average ==
    \E a \in GradeInputs, b \in GradeInputs, c \in GradeInputs :
        call = Calling("calculate_ufrpe_average", [n1 |-> a, n2 |-> b, n3 |-> c])

call_calculate_ufrpe_average ==
    /\ Pending("calculate_ufrpe_average")
    /\ LET r == calculate_ufrpe_average(call.args.n1, call.args.n2, call.args.n3)
       IN  IF r.raised THEN Return(Raised)
           ELSE \E average \in r.results : Return(Returned(average))
    /\ StoresIdle

\* calculate_final_exam_grade with > for >=: an average of exactly 7.0 needs the exam.
calculate_final_exam_grade_PassingAbove(average) ==
    IF ~(0 <= average /\ average <= 10 * GRADE_MAX)
    THEN [raised |-> TRUE, results |-> {}]
    ELSE IF average > 10 * PASSING \/ average < 10 * FINAL_EXAM_MIN
    THEN [raised |-> FALSE, results |-> {None}]
    ELSE [raised |-> FALSE, results |-> {Some(g) : g \in Round2(10 * GRADE_MAX - average)}]

\* AcademicCalculations.calculate_final_exam_grade, the average in thousandths (a
\* float need not be a multiple of 0.01) and the grade needed in hundredths:
\* ValueError outside [0, 10], None from 7.0 on and below 3.0, else round(10 - average, 2).
calculate_final_exam_grade(average) ==
    IF ~(0 <= average /\ average <= 10 * GRADE_MAX)
    THEN [raised |-> TRUE, results |-> {}]
    ELSE IF average >= 10 * PASSING \/ average < 10 * FINAL_EXAM_MIN
    THEN [raised |-> FALSE, results |-> {None}]
    ELSE [raised |-> FALSE, results |-> {Some(g) : g \in Round2(10 * GRADE_MAX - average)}]

\* Averages in thousandths: the ends of [0, 10], 3.0 and 7.0, and their neighbours.
AverageInputs == {-1, 0, 2999, 3000, 3005, 5000, 6990, 6995, 6999, 7000, 7001, 10000, 10001}

Given_calculate_final_exam_grade ==
    \E a \in AverageInputs : call = Calling("calculate_final_exam_grade", [average |-> a])

call_calculate_final_exam_grade ==
    /\ Pending("calculate_final_exam_grade")
    /\ LET r == calculate_final_exam_grade(call.args.average)
       IN  IF r.raised THEN Return(Raised)
           ELSE \E grade \in r.results : Return(Returned(grade))
    /\ StoresIdle

\* Time tokens: four times of the afternoon, and two that time_to_minutes rejects.
TimeInputs == {<<14, 0>>, <<16, 0>>, <<16, 1>>, <<18, 0>>, <<24, 0>>, <<15, 60>>}

Given_check_time_overlap ==
    \E a \in TimeInputs, b \in TimeInputs, c \in TimeInputs, d \in TimeInputs :
        call = Calling("check_time_overlap",
                       [start1 |-> a, end1 |-> b, start2 |-> c, end2 |-> d])

call_check_time_overlap ==
    /\ Pending("check_time_overlap")
    /\ LET r == check_time_overlap(call.args.start1, call.args.end1,
                                   call.args.start2, call.args.end2)
       IN  IF r.raised THEN Return(Raised) ELSE Return(Returned(r.overlap))
    /\ StoresIdle

\* The lists of at most n elements of S.
RECURSIVE ListsUpTo(_, _)
ListsUpTo(S, n) ==
    IF n = 0 THEN {<<>>}
    ELSE ListsUpTo(S, n - 1) \cup {Append(l, x) : l \in ListsUpTo(S, n - 1), x \in S}

\* Weekly blocks: Monday or Tuesday, 14:00-16:00, 15:00-17:00 or 16:00-18:00; and a
\* Monday block whose times time_to_minutes rejects.
BlockInputs ==
    {[day |-> d, start |-> t[1], end |-> t[2]] :
        d \in {1, 2},
        t \in {<<<<14, 0>>, <<16, 0>>>>, <<<<15, 0>>, <<17, 0>>>>, <<<<16, 0>>, <<18, 0>>>>}}
    \cup {[day |-> 1, start |-> <<25, 0>>, end |-> <<26, 0>>]}

Given_has_schedule_conflict ==
    \E a \in ListsUpTo(BlockInputs, MaxBlocks), b \in ListsUpTo(BlockInputs, MaxBlocks) :
        call = Calling("has_schedule_conflict",
                       [discipline1_schedules |-> a, discipline2_schedules |-> b])

call_has_schedule_conflict ==
    /\ Pending("has_schedule_conflict")
    /\ LET r == has_schedule_conflict(call.args.discipline1_schedules,
                                      call.args.discipline2_schedules)
       IN  IF r.raised THEN Return(Raised)
           ELSE Return(Returned([has_conflict |-> r.has_conflict, info |-> r.info]))
    /\ StoresIdle

\* Completed maps over the codes A and B: a code is no key, or has the average 6.99
\* or 7.0.  Prerequisite lists over A and B, duplicates included.
CompletedInputs ==
    UNION {[K -> {699, 700}] : K \in SUBSET {"A", "B"}}

Given_check_prerequisites ==
    \E r \in ListsUpTo({"A", "B"}, MaxRequired), c \in CompletedInputs :
        call = Calling("check_prerequisites",
                       [discipline_prerequisites |-> r, completed_disciplines |-> c])

call_check_prerequisites ==
    /\ Pending("check_prerequisites")
    /\ LET r == check_prerequisites(call.args.discipline_prerequisites,
                                    call.args.completed_disciplines)
       IN  Return(Returned([met |-> r.met, missing |-> r.missing]))
    /\ StoresIdle

\* validate_discipline_status with the first two tests exchanged.
validate_discipline_status_StudyingFirst(discipline_id, prerequisites, completed, enrolled_ids) ==
    IF InSeq(discipline_id, enrolled_ids) THEN "studying"
    ELSE IF discipline_id \in DOMAIN completed /\ completed[discipline_id] >= PASSING
    THEN "completed"
    ELSE IF check_prerequisites(prerequisites, completed).met THEN "available"
    ELSE "blocked"

\* PrerequisiteValidation.validate_discipline_status
validate_discipline_status(discipline_id, prerequisites, completed, enrolled_ids) ==
    IF discipline_id \in DOMAIN completed /\ completed[discipline_id] >= PASSING
    THEN "completed"
    ELSE IF InSeq(discipline_id, enrolled_ids) THEN "studying"
    ELSE IF check_prerequisites(prerequisites, completed).met THEN "available"
    ELSE "blocked"

\* The discipline A, with prerequisite lists and completed maps as above, and the
\* lists of the codes being studied.
EnrolledInputs == {<<>>, <<"A">>, <<"B">>, <<"B", "A">>}

Given_validate_discipline_status ==
    \E r \in ListsUpTo({"A", "B"}, MaxRequired), c \in CompletedInputs, e \in EnrolledInputs :
        call = Calling("validate_discipline_status",
                       [discipline_id |-> "A", discipline_prerequisites |-> r,
                        completed_disciplines |-> c, enrolled_ids |-> e])

call_validate_discipline_status ==
    /\ Pending("validate_discipline_status")
    /\ Return(Returned(validate_discipline_status(
                  call.args.discipline_id, call.args.discipline_prerequisites,
                  call.args.completed_disciplines, call.args.enrolled_ids)))
    /\ StoresIdle

\* round(q, 2) of the quotient q = num / den (den > 0, num >= 0) of two numbers, num
\* counted in hundredths: the results in hundredths, a tie going to either neighbour.
RoundQuotient(num, den) ==
    LET base == num \div den
        rest == num % den
    IN  IF 2 * rest < den THEN {base} ELSE IF 2 * rest > den THEN {base + 1}
        ELSE {base, base + 1}

\* calculate_course_progress without the clamp from above.
calculate_course_progress_Unclamped(completed_hours, total_hours) ==
    IF total_hours <= 0 THEN [raised |-> TRUE, results |-> {}]
    ELSE LET clamped == IF completed_hours < 0 THEN 0 ELSE completed_hours
         IN  [raised |-> FALSE, results |-> RoundQuotient(100 * 100 * clamped, total_hours)]

\* AcademicCalculations.calculate_course_progress, the percentage in hundredths:
\* ValueError unless total_hours > 0; completed_hours is brought into
\* [0, total_hours]; round((completed_hours / total_hours) * 100, 2).
calculate_course_progress(completed_hours, total_hours) ==
    IF total_hours <= 0 THEN [raised |-> TRUE, results |-> {}]
    ELSE LET clamped == IF completed_hours < 0 THEN 0
                        ELSE IF completed_hours > total_hours THEN total_hours
                        ELSE completed_hours
         IN  [raised |-> FALSE, results |-> RoundQuotient(100 * 100 * clamped, total_hours)]

\* Hours completed and total hours (3210 is the default of total_hours).
CompletedHoursInputs == {-5, 0, 1, 50, 100, 150, 3210, 3211}
TotalHoursInputs == {-1, 0, 3, 100, 800, 3210}

Given_calculate_course_progress ==
    \E c \in CompletedHoursInputs, t \in TotalHoursInputs :
        call = Calling("calculate_course_progress", [completed_hours |-> c, total_hours |-> t])

call_calculate_course_progress ==
    /\ Pending("calculate_course_progress")
    /\ LET r == calculate_course_progress(call.args.completed_hours, call.args.total_hours)
       IN  IF r.raised THEN Return(Raised)
           ELSE \E percentage \in r.results : Return(Returned(percentage))
    /\ StoresIdle

RECURSIVE WeightedSums(_)
\* The loop of calculate_weighted_cr: [total_weighted_points, total_hours].  A record
\* without the key hours counts 60 hours; one whose media_final is None is passed over.
WeightedSums(disciplines_list) ==
    IF disciplines_list = <<>> THEN [points |-> 0, hours |-> 0]
    ELSE LET disc == Head(disciplines_list)
             rest == WeightedSums(Tail(disciplines_list))
             ch == IF IsNone(disc.hours) THEN DEFAULT_HOURS ELSE Val(disc.hours)
         IN  IF ~IsNone(disc.media_final)
             THEN [points |-> Val(disc.media_final) * ch + rest.points,
                   hours |-> ch + rest.hours]
             ELSE rest

\* calculate_weighted_cr with `if media:` for `if media is not None:`: an average
\* of 0.0 is passed over as well.
calculate_weighted_cr_Truthy(disciplines_list) ==
    LET total == WeightedSums(SelectSeq(disciplines_list,
                                        LAMBDA disc : disc.media_final # Some(0)))
    IN  IF total.hours = 0 THEN {None}
        ELSE {Some(cr) : cr \in RoundQuotient(total.points, total.hours)}

\* AcademicCalculations.calculate_weighted_cr: None when no hours were counted, else
\* round(total_weighted_points / total_hours, 2), in hundredths.
calculate_weighted_cr(disciplines_list) ==
    LET total == WeightedSums(disciplines_list)
    IN  IF total.hours = 0 THEN {None}
        ELSE {Some(cr) : cr \in RoundQuotient(total.points, total.hours)}

\* Records: the final average None, 0.0, 7.0 or 7.01; the key hours missing, 0 or 30.
RecordInputs ==
    {[media_final |-> m, hours |-> h] :
        m \in {None, Some(0), Some(700), Some(701)}, h \in {None, Some(0), Some(30)}}

Given_calculate_weighted_cr ==
    \E l \in ListsUpTo(RecordInputs, MaxRecords) :
        call = Calling("calculate_weighted_cr", [disciplines_list |-> l])

call_calculate_weighted_cr ==
    /\ Pending("calculate_weighted_cr")
    /\ \E cr \in calculate_weighted_cr(call.args.disciplines_list) : Return(Returned(cr))
    /\ StoresIdle


\* The two Database() are built as at start-up; then one function is called.
CalcInit ==
    LET first == Database(EmptyStore)
        second == Database(first.disk)
    IN  /\ discDb = first.store
        /\ enrDb = second.store
        /\ files = second.disk
        /\ last = Response("start", "", "", "", <<>>)
        /\ steps = 0
        /\ \/ Given_calculate_ufrpe_average
           \/ Given_calculate_final_exam_grade
           \/ Given_calculate_weighted_cr
           \/ Given_calculate_course_progress
           \/ Given_check_time_overlap
           \/ Given_has_schedule_conflict
           \/ Given_check_prerequisites
           \/ Given_validate_discipline_status

CalcNext ==
    \/ call_calculate_ufrpe_average
    \/ call_calculate_final_exam_grade
    \/ call_check_time_overlap
    \/ call_has_schedule_conflict
    \/ call_check_prerequisites
    \/ call_validate_discipline_status
    \/ call_calculate_course_progress
    \/ call_calculate_weighted_cr

CalcSpec == CalcInit /\ [][CalcNext]_vars

\* ------------------------------------------------------------ properties

\* The codes of a list, the enrollment list of a semester in a store, and whether a
\* step is a request of a given route.
Range(seq) == {seq[k] : k \in 1..Len(seq)}
ListOf(store, s) == IF s \in DOMAIN store.enrollments THEN store.enrollments[s] ELSE <<>>
Handled(op) == last'.op = op /\ steps' = steps + 1

\* A discipline of the store has passed: its final average is present and >= 7.0.
Passed(store, c) ==
    /\ c \in DOMAIN store.disciplines
    /\ store.disciplines[c].media_final # <<>>
    /\ store.disciplines[c].media_final[1] >= 700

\* Both lookups of an enroll request succeed in the store of the enrollment routes.
BothExist(s, c) == s \in DOMAIN enrDb.semesters /\ c \in DOMAIN enrDb.disciplines

\* C1: enrolling, in an existing semester, an existing discipline that is already in
\* the semester's enrollment list returns AlreadyEnrolled and leaves the list as it
\* was, whatever the discipline's schedule.
C1_ReenrollIsAlreadyEnrolled ==
    [][(/\ Handled("enroll")
        /\ BothExist(last'.semester_code, last'.discipline_code)
        /\ last'.discipline_code \in Range(ListOf(enrDb, last'.semester_code)))
       => (/\ last'.outcome = "AlreadyEnrolled"
           /\ enrDb'.enrollments = enrDb.enrollments)]_vars

\* Some prerequisite of discipline c is not a passed discipline of the store.
SomePrerequisiteUnmet(store, c) ==
    \E p \in Range(store.disciplines[c].prerequisites) : ~Passed(store, p)

\* C2: for an existing semester and discipline, enroll returns PrerequisitesNotMet
\* exactly when some prerequisite of the discipline is not a discipline of the store
\* with final average >= 7.0 (so whatever the schedules are), and then the
\* enrollment lists are unchanged.  The store is the one the enrollment routes read.
C2_PrerequisitesDecideFirst ==
    [][(Handled("enroll") /\ BothExist(last'.semester_code, last'.discipline_code))
       => (/\ (last'.outcome = "PrerequisitesNotMet")
                  <=> SomePrerequisiteUnmet(enrDb, last'.discipline_code)
           /\ (last'.outcome = "PrerequisitesNotMet")
                  => enrDb'.enrollments = enrDb.enrollments)]_vars

\* Two blocks on the same weekday with well-formed times whose intervals overlap.
WellFormed(t) == t[1] \in 0..23 /\ t[2] \in 0..59
Minute(t) == 60 * t[1] + t[2]
BlocksOverlap(a, b) ==
    /\ a.day = b.day
    /\ WellFormed(a.start) /\ WellFormed(a.end) /\ WellFormed(b.start) /\ WellFormed(b.end)
    /\ Minute(a.start) < Minute(b.end)
    /\ Minute(a.end) > Minute(b.start)
Clash(store, c, d) ==
    /\ d \in DOMAIN store.disciplines
    /\ \E a \in Range(store.disciplines[c].schedules),
          b \in Range(store.disciplines[d].schedules) : BlocksOverlap(a, b)

\* C2 witness: PrerequisitesNotMet was returned for a discipline that also clashes
\* with a discipline of the semester's list.
C2_Witness ==
    /\ last.op = "enroll" /\ last.outcome = "PrerequisitesNotMet"
    /\ \E d \in Range(ListOf(enrDb, last.semester_code)) :
          Clash(enrDb, last.discipline_code, d)

\* C3: once the grades route has recorded for P grades whose final average is >= 7.0,
\* an enroll of a discipline whose only prerequisite is P, in an existing semester,
\* does not return PrerequisitesNotMet.
C3_GradedPrerequisiteAdmits ==
    (/\ last.op = "enroll"
     /\ BothExist(last.semester_code, last.discipline_code)
     /\ \E p \in DOMAIN discDb.disciplines :
           /\ Passed(discDb, p)
           /\ enrDb.disciplines[last.discipline_code].prerequisites = <<p>>)
    => last.outcome # "PrerequisitesNotMet"

\* Every time of the discipline's blocks and of the blocks of the disciplines in the
\* semester's list is well formed.
BlocksWellFormed(store, c) ==
    \A b \in Range(store.disciplines[c].schedules) : WellFormed(b.start) /\ WellFormed(b.end)
TimesWellFormed(store, s, c) ==
    /\ BlocksWellFormed(store, c)
    /\ \A d \in Range(ListOf(store, s)) \cap DOMAIN store.disciplines : BlocksWellFormed(store, d)

\* The positions of the semester's list whose discipline clashes with c.
Clashing(store, s, c) ==
    {k \in 1..Len(ListOf(store, s)) : Clash(store, c, ListOf(store, s)[k])}
First(positions) == CHOOSE k \in positions : \A m \in positions : k <= m

\* What C4 says of an enroll request whose lookups and prerequisites pass.
ConflictRule(s, c) ==
    /\ (last'.outcome = "ScheduleConflict") <=> (Clashing(enrDb, s, c) # {})
    /\ (last'.outcome = "ScheduleConflict")
          => /\ last'.detail =
                   <<enrDb.disciplines[ListOf(enrDb, s)[First(Clashing(enrDb, s, c))]].name>>
             /\ enrDb'.enrollments = enrDb.enrollments

C5_SemesterResolvedFirst ==
    [][Handled("enroll")
       => /\ (last'.semester_code \notin DOMAIN enrDb.semesters)
                => last'.outcome = "NotFoundSemester"
          /\ (/\ last'.semester_code \in DOMAIN enrDb.semesters
              /\ last'.discipline_code \notin DOMAIN enrDb.disciplines)
                => last'.outcome = "NotFoundDiscipline"
          /\ ~BothExist(last'.semester_code, last'.discipline_code)
                => UNCHANGED <<discDb, enrDb, files>>]_vars

\* C5 witness: semester and discipline both absent, and the semester was reported.
C5_Witness ==
    /\ last.op = "enroll" /\ last.outcome = "NotFoundSemester"
    /\ last.discipline_code \notin DOMAIN enrDb.disciplines

Without(seq, x) == SelectSeq(seq, LAMBDA y : y # x)

\* C6: unenroll returns Removed and takes the discipline out of the semester's list
\* when it is there, and otherwise (also for an unknown semester or discipline)
\* returns NotEnrolled and changes nothing; repeated right after a Removed, it
\* returns NotEnrolled.
C6_UnenrollRemovesOrReports ==
    [][Handled("unenroll")
       => /\ IF last'.discipline_code \in Range(ListOf(enrDb, last'.semester_code))
             THEN /\ last'.outcome = "Removed"
                  /\ enrDb'.enrollments =
                        [enrDb.enrollments EXCEPT ![last'.semester_code] =
                            Without(@, last'.discipline_code)]
             ELSE /\ last'.outcome = "NotEnrolled"
                  /\ UNCHANGED <<discDb, enrDb, files>>
          /\ (/\ last.op = "unenroll" /\ last.outcome = "Removed"
              /\ last'.semester_code = last.semester_code
              /\ last'.discipline_code = last.discipline_code)
                => last'.outcome = "NotEnrolled"]_vars

\* C6 witness: a Removed, after which the discipline is in the list no more.
C6_Witness ==
    /\ last.op = "unenroll" /\ last.outcome = "Removed"
    /\ last.discipline_code \notin Range(ListOf(enrDb, last.semester_code))

\* C7: right after the delete route has deleted a discipline, no enrollment list that
\* the enrollment routes read holds its code.
C7_DeleteCascades ==
    (last.op = "delete_discipline" /\ last.outcome = "Deleted")
    => \A s \in DOMAIN enrDb.enrollments : last.discipline_code \notin Range(enrDb.enrollments[s])

\* Twice the mean of the two largest of three grades.
LargestPairSum(a, b, c) ==
    CHOOSE m \in {a + b, a + c, b + c} : \A x \in {a + b, a + c, b + c} : x <= m
Stores == {discDb, enrDb, files}
Graded(r) == r.media_final # <<>>

\* C8 as claimed: a discipline with a final average has its three grades, and the
\* final average is the mean of the two largest.
C8_FinalAverageIsMean ==
    \A st \in Stores : \A c \in DOMAIN st.disciplines :
        LET r == st.disciplines[c]
        IN  Graded(r) => /\ r.n1 # <<>> /\ r.n2 # <<>> /\ r.n3 # <<>>
                         /\ 2 * r.media_final[1] = LargestPairSum(r.n1[1], r.n2[1], r.n3[1])

\* C8 (amended): ... and the final average is the mean of the two largest rounded to
\* two decimals, that is, within 0.005 of the mean.
C8_FinalAverageIsRoundedMean ==
    \A st \in Stores : \A c \in DOMAIN st.disciplines :
        LET r == st.disciplines[c]
        IN  Graded(r) => /\ r.n1 # <<>> /\ r.n2 # <<>> /\ r.n3 # <<>>
                         /\ 2 * r.media_final[1] - LargestPairSum(r.n1[1], r.n2[1], r.n3[1])
                                \in {-1, 0, 1}

\* C8 witness: a graded discipline whose mean has a third decimal.
C8_Witness ==
    \E c \in DOMAIN discDb.disciplines :
        LET r == discDb.disciplines[c]
        IN  Graded(r) /\ LargestPairSum(r.n1[1], r.n2[1], r.n3[1]) % 2 = 1

\* C9: no enrollment list holds a code twice.
C9_NoDuplicateEnrollment ==
    \A st \in Stores : \A s \in DOMAIN st.enrollments :
        Cardinality(Range(st.enrollments[s])) = Len(st.enrollments[s])

\* C9 witness: an enroll of a discipline that was in the list reached the store's
\* own check and was turned down.
C9_Witness ==
    /\ last.op = "enroll" /\ last.outcome = "AlreadyEnrolled"
    /\ last.discipline_code \in Range(ListOf(enrDb, last.semester_code))

\* What C10 says of the store: it changes on EnrolledSuccessfully alone, and then by
\* the one code appended to the one list.
EnrollFrame ==
    IF last'.outcome = "EnrolledSuccessfully"
    THEN /\ enrDb'.enrollments =
               [enrDb.enrollments EXCEPT ![last'.semester_code] =
                   Append(@, last'.discipline_code)]
         /\ last'.discipline_code \notin Range(ListOf(enrDb, last'.semester_code))
         /\ enrDb'.disciplines = enrDb.disciplines
         /\ enrDb'.semesters = enrDb.semesters
         /\ discDb' = discDb
    ELSE UNCHANGED <<discDb, enrDb, files>>

Done(fn) == call.fn = fn /\ call.ret # <<>>
Ret == call.ret[1]
Args == call.args
InRange(n) == 0 <= n /\ n <= 1000
Permutations3(a, b, c) ==
    {<<a, b, c>>, <<a, c, b>>, <<b, a, c>>, <<b, c, a>>, <<c, a, b>>, <<c, b, a>>}

\* What C11 says of the grades outside [0, 10] and of the permutations.
UfrpeRangeAndSymmetry ==
    /\ Ret.raised <=> ~(InRange(Args.n1) /\ InRange(Args.n2) /\ InRange(Args.n3))
    /\ \A p \in Permutations3(Args.n1, Args.n2, Args.n3) :
          calculate_ufrpe_average(p[1], p[2], p[3])
              = calculate_ufrpe_average(Args.n1, Args.n2, Args.n3)

\* C11 as claimed: for grades in [0, 10] the final average is the mean of the two
\* largest, whatever the order of the three arguments; a grade outside [0, 10] makes
\* the call fail with the out-of-range error.
C11_UfrpeAverageIsMean ==
    Done("calculate_ufrpe_average")
    => /\ UfrpeRangeAndSymmetry
       /\ ~Ret.raised => 2 * Ret.value = LargestPairSum(Args.n1, Args.n2, Args.n3)

\* C11 (amended): ... the final average is the mean of the two largest rounded to
\* two decimals (within 0.005 of the mean) ...
C11_UfrpeAverageIsRoundedMean ==
    Done("calculate_ufrpe_average")
    => /\ UfrpeRangeAndSymmetry
       /\ ~Ret.raised
             => 2 * Ret.value - LargestPairSum(Args.n1, Args.n2, Args.n3) \in {-1, 0, 1}

\* C11 witness: the call returned for three different grades given in ascending
\* order, the mean of the two largest having a third decimal.
C11_Witness ==
    /\ Done("calculate_ufrpe_average") /\ ~Ret.raised
    /\ Args.n1 < Args.n2 /\ Args.n2 < Args.n3
    /\ (Args.n2 + Args.n3) % 2 = 1

\* What C12 says of an average x (in thousandths) outside [3.0, 7.0).
FinalExamOutsideBand ==
    /\ Ret.raised <=> ~(0 <= Args.average /\ Args.average <= 10000)
    /\ (~Ret.raised /\ (Args.average >= 7000 \/ Args.average < 3000)) => Ret.value = <<>>
    /\ (~Ret.raised /\ 3000 <= Args.average /\ Args.average < 7000) => Ret.value # <<>>

\* C12 as claimed: for an average x in [0, 10] the grade needed in the final exam
\* is absent when x >= 7.0 or x < 3.0 and is 10 - x when 3.0 <= x < 7.0; outside
\* [0, 10] the call fails with the out-of-range error.
C12_FinalExamGradeIsComplement ==
    Done("calculate_final_exam_grade")
    => /\ FinalExamOutsideBand
       /\ (~Ret.raised /\ Ret.value # <<>>) => 10 * Ret.value[1] = 10000 - Args.average

\* C12 (amended): ... and is 10 - x rounded to two decimals (within 0.005 of 10 - x)
\* when 3.0 <= x < 7.0 ...
C12_FinalExamGradeIsRoundedComplement ==
    Done("calculate_final_exam_grade")
    => /\ FinalExamOutsideBand
       /\ (~Ret.raised /\ Ret.value # <<>>)
             => 10 * Ret.value[1] - (10000 - Args.average) \in -5..5

\* C12 witness: the average 3.0 was given and 7.00 came back.
C12_Witness ==
    /\ Done("calculate_final_exam_grade") /\ ~Ret.raised
    /\ Args.average = 3000 /\ Ret.value = <<700>>

\* C13: for four times of day, check_time_overlap is true exactly when start1 < end2
\* and end1 > start2 in minutes since midnight (it raises when a token is no time of
\* day); 14:00-16:00 and 16:00-18:00 do not overlap, 14:00-16:01 and 16:00-18:00 do.
C13_OverlapIsHalfOpen ==
    Done("check_time_overlap")
    => /\ Ret.raised <=> ~(/\ WellFormed(Args.start1) /\ WellFormed(Args.end1)
                           /\ WellFormed(Args.start2) /\ WellFormed(Args.end2))
       /\ ~Ret.raised
             => /\ Ret.value <=> (/\ Minute(Args.start1) < Minute(Args.end2)
                                  /\ Minute(Args.end1) > Minute(Args.start2))
                /\ Args = [start1 |-> <<14, 0>>, end1 |-> <<16, 0>>,
                           start2 |-> <<16, 0>>, end2 |-> <<18, 0>>] => ~Ret.value
                /\ Args = [start1 |-> <<14, 0>>, end1 |-> <<16, 1>>,
                           start2 |-> <<16, 0>>, end2 |-> <<18, 0>>] => Ret.value

\* C13 witness: 14:00-16:00 against 16:00-18:00 was answered: the blocks touch.
C13_Witness ==
    /\ Done("check_time_overlap") /\ ~Ret.raised
    /\ Args = [start1 |-> <<14, 0>>, end1 |-> <<16, 0>>, start2 |-> <<16, 0>>, end2 |-> <<18, 0>>]
    /\ Ret.value = FALSE

\* The pairs of positions (i of blocks A, j of blocks B) whose blocks are on the same
\* weekday and overlap, and the first of them with A as the outer loop.
ConflictPairs(A, B) ==
    {p \in (1..Len(A)) \X (1..Len(B)) : BlocksOverlap(A[p[1]], B[p[2]])}
FirstPair(P) ==
    CHOOSE p \in P : \A q \in P : p[1] < q[1] \/ (p[1] = q[1] /\ p[2] <= q[2])
AllWellFormed(blocks) == \A b \in Range(blocks) : WellFormed(b.start) /\ WellFormed(b.end)

\* What C14 says of a call with blocks A and B.
FirstConflictRule(A, B) ==
    /\ ~Ret.raised
    /\ Ret.value.has_conflict <=> ConflictPairs(A, B) # {}
    /\ Ret.value.has_conflict
          => LET p == FirstPair(ConflictPairs(A, B))
             IN  Ret.value.info = <<[day |-> A[p[1]].day,
                                     time1 |-> <<A[p[1]].start, A[p[1]].end>>,
                                     time2 |-> <<B[p[2]].start, B[p[2]].end>>]>>
    /\ ~Ret.value.has_conflict => Ret.value.info = <<>>

\* C14 as claimed: has_schedule_conflict reports a conflict exactly when a block of A
\* and a block of B are on the same weekday and overlap, with the day and the two
\* time ranges of the first such pair (A outside, B inside); otherwise it returns no
\* conflict and no detail.
C14_FirstConflictOfAnyBlocks ==
    Done("has_schedule_conflict")
    => FirstConflictRule(Args.discipline1_schedules, Args.discipline2_schedules)

\* C14 (amended): the same, when every time of the blocks is a well-formed HH:MM.
C14_FirstConflictOfWellFormedBlocks ==
    (/\ Done("has_schedule_conflict")
     /\ AllWellFormed(Args.discipline1_schedules)
     /\ AllWellFormed(Args.discipline2_schedules))
    => FirstConflictRule(Args.discipline1_schedules, Args.discipline2_schedules)

\* C14 witness: well-formed blocks with two conflicting pairs, (1, 2) and (2, 1); the
\* call has returned.
C14_Witness ==
    /\ Done("has_schedule_conflict") /\ ~Ret.raised
    /\ AllWellFormed(Args.discipline1_schedules) /\ AllWellFormed(Args.discipline2_schedules)
    /\ ConflictPairs(Args.discipline1_schedules, Args.discipline2_schedules)
          = {<<1, 2>>, <<2, 1>>}

\* A code is satisfied: a key of completed with value >= 7.0.  The entries of required
\* that are not satisfied, each where it stands.
Satisfied(code, completed) == code \in DOMAIN completed /\ completed[code] >= 700
RECURSIVE Unsatisfied(_, _)
Unsatisfied(required, completed) ==
    IF required = <<>> THEN <<>>
    ELSE (IF Satisfied(Head(required), completed) THEN <<>> ELSE <<Head(required)>>)
             \o Unsatisfied(Tail(required), completed)

\* C15: check_prerequisites returns the entries of required that are not keys of
\* completed with value >= 7.0, in the order of required and with duplicates kept,
\* and says all are met exactly when there is none.
C15_MissingInOrderWithDuplicates ==
    Done("check_prerequisites")
    => /\ ~Ret.raised
       /\ Ret.value.missing =
              Unsatisfied(Args.discipline_prerequisites, Args.completed_disciplines)
       /\ Ret.value.met <=> Ret.value.missing = <<>>

\* C15 witness: a code came back twice, around a code that is satisfied.
C15_Witness ==
    /\ Done("check_prerequisites")
    /\ Len(Args.discipline_prerequisites) = 3
    /\ Satisfied(Args.discipline_prerequisites[2], Args.completed_disciplines)
    /\ Ret.value.missing = <<Args.discipline_prerequisites[1], Args.discipline_prerequisites[1]>>

\* The discipline of the call is passed, is being studied, has its prerequisites met.
StatusPassed == Satisfied(Args.discipline_id, Args.completed_disciplines)
StatusEnrolled == Args.discipline_id \in Range(Args.enrolled_ids)
StatusAllMet ==
    \A p \in Range(Args.discipline_prerequisites) : Satisfied(p, Args.completed_disciplines)

\* C16: validate_discipline_status decides in strict priority: completed if the code
\* is a key of completed with value >= 7.0, also when it is enrolled; else studying
\* if it is enrolled, also when its prerequisites are not met; else available if
\* all prerequisites are met; else blocked.
C16_StatusByPriority ==
    Done("validate_discipline_status")
    => /\ ~Ret.raised
       /\ StatusPassed => Ret.value = "completed"
       /\ (~StatusPassed /\ StatusEnrolled) => Ret.value = "studying"
       /\ (~StatusPassed /\ ~StatusEnrolled /\ StatusAllMet) => Ret.value = "available"
       /\ (~StatusPassed /\ ~StatusEnrolled /\ ~StatusAllMet) => Ret.value = "blocked"

\* C16 witness: a passed discipline that is enrolled, and whose prerequisites are
\* not met, was reported completed.
C16_Witness ==
    /\ Done("validate_discipline_status")
    /\ StatusPassed /\ StatusEnrolled /\ ~StatusAllMet
    /\ Ret.value = "completed"

\* completed_hours brought into [0, total_hours], and what C17 says besides the value.
ClampedHours ==
    IF Args.completed_hours < 0 THEN 0
    ELSE IF Args.completed_hours > Args.total_hours THEN Args.total_hours
    ELSE Args.completed_hours
ProgressFailsOrInRange ==
    /\ Ret.raised <=> Args.total_hours <= 0
    /\ ~Ret.raised
          => /\ 0 <= Ret.value /\ Ret.value <= 10000
             /\ Args.completed_hours < 0 => Ret.value = 0
             /\ Args.completed_hours > Args.total_hours => Ret.value = 10000

\* C17 as claimed: calculate_course_progress fails when total_hours <= 0; otherwise
\* it returns 100 * completed_hours / total_hours for completed_hours clamped into
\* [0, total_hours], a value in [0, 100] (0 below, 100 above).
C17_ProgressIsRatio ==
    Done("calculate_course_progress")
    => /\ ProgressFailsOrInRange
       /\ ~Ret.raised => Ret.value * Args.total_hours = 10000 * ClampedHours

\* C17 (amended): ... it returns 100 * completed_hours / total_hours rounded to two
\* decimals (within 0.005 of it) ...
C17_ProgressIsRoundedRatio ==
    Done("calculate_course_progress")
    => /\ ProgressFailsOrInRange
       /\ ~Ret.raised
             => /\ 2 * (Ret.value * Args.total_hours - 10000 * ClampedHours) <= Args.total_hours
                /\ 2 * (10000 * ClampedHours - Ret.value * Args.total_hours) <= Args.total_hours

\* C17 witness: more hours completed than the total, and 100.00 came back.
C17_Witness ==
    /\ Done("calculate_course_progress") /\ ~Ret.raised
    /\ Args.completed_hours > Args.total_hours
    /\ Ret.value = 10000

\* The sum of f over the set S of positions.
RECURSIVE SumOver(_, _)
SumOver(f, S) ==
    IF S = {} THEN 0
    ELSE LET k == CHOOSE x \in S : TRUE IN f[k] + SumOver(f, S \ {k})

\* The records of the call that have a final average, their hours (60 for a record
\* without hours), and the two sums over them.
Counted == {k \in 1..Len(Args.disciplines_list) : Args.disciplines_list[k].media_final # <<>>}
HoursOf(k) ==
    IF Args.disciplines_list[k].hours = <<>> THEN 60 ELSE Args.disciplines_list[k].hours[1]
SumHours == SumOver([k \in Counted |-> HoursOf(k)], Counted)
SumPoints ==
    SumOver([k \in Counted |-> Args.disciplines_list[k].media_final[1] * HoursOf(k)], Counted)

\* C18 as claimed: calculate_weighted_cr counts the records that have a final
\* average, each with its own hours (60 without the field); it returns nothing when
\* the hours counted sum to 0, and otherwise sum(average * hours) / sum(hours).
C18_WeightedIsQuotient ==
    Done("calculate_weighted_cr")
    => /\ ~Ret.raised
       /\ Ret.value = <<>> <=> SumHours = 0
       /\ Ret.value # <<>> => Ret.value[1] * SumHours = SumPoints

\* C18 (amended): ... and otherwise sum(average * hours) / sum(hours) rounded to two
\* decimals (within 0.005 of it).
C18_WeightedIsRoundedQuotient ==
    Done("calculate_weighted_cr")
    => /\ ~Ret.raised
       /\ Ret.value = <<>> <=> SumHours = 0
       /\ Ret.value # <<>>
             => /\ 2 * (Ret.value[1] * SumHours - SumPoints) <= SumHours
                /\ 2 * (SumPoints - Ret.value[1] * SumHours) <= SumHours

\* C18 witness: three records, one without a final average, one without hours, and
\* a quotient with more than two decimals; a value came back.
C18_Witness ==
    /\ Done("calculate_weighted_cr") /\ Ret.value # <<>>
    /\ Len(Args.disciplines_list) = 3 /\ Cardinality(Counted) = 2
    /\ \E k \in Counted : Args.disciplines_list[k].hours = <<>>
    /\ SumPoints % SumHours # 0

\* The names of the prerequisites in the list that are not passed disciplines of the
\* store and are disciplines of the store, each where it stands.
RECURSIVE UnmetNames(_, _)
UnmetNames(store, prerequisites) ==
    IF prerequisites = <<>> THEN <<>>
    ELSE (IF ~Passed(store, Head(prerequisites))
             /\ Head(prerequisites) \in DOMAIN store.disciplines
          THEN <<store.disciplines[Head(prerequisites)].name>> ELSE <<>>)
             \o UnmetNames(store, Tail(prerequisites))

\* C19: a PrerequisitesNotMet carries the names of the missing prerequisites that
\* are disciplines of the store, in the order of the discipline's list; a missing
\* prerequisite that is no discipline of the store has no name in it, and the
\* outcome is PrerequisitesNotMet all the same, also with no name at all.
C19_MissingNamesResolved ==
    [][(Handled("enroll") /\ BothExist(last'.semester_code, last'.discipline_code))
       => LET prerequisites == enrDb.disciplines[last'.discipline_code].prerequisites
          IN  /\ (last'.outcome = "PrerequisitesNotMet")
                     => last'.detail = UnmetNames(enrDb, prerequisites)
              /\ (\E p \in Range(prerequisites) : p \notin DOMAIN enrDb.disciplines)
                     => last'.outcome = "PrerequisitesNotMet"]_vars

\* C19 witness: PrerequisitesNotMet with two names, for a list of three whose second
\* code is no discipline of the store.
C19_Witness ==
    /\ last.op = "enroll" /\ last.outcome = "PrerequisitesNotMet"
    /\ Len(last.detail) = 2
    /\ LET prerequisites == enrDb.disciplines[last.discipline_code].prerequisites
       IN  Len(prerequisites) = 3 /\ prerequisites[2] \notin DOMAIN enrDb.disciplines

\* C20: no two different disciplines of a semester's enrollment list have blocks on
\* the same weekday that overlap, whatever enroll, unenroll, create, update and
\* delete requests have been handled.
C20_NoClashAmongEnrolled ==
    \A st \in Stores : \A s \in DOMAIN st.enrollments :
        \A c, d \in Range(st.enrollments[s]) \cap DOMAIN st.disciplines :
            c # d => ~Clash(st, c, d)

\* C21: every discipline of a semester's enrollment list has all its prerequisites
\* satisfied (each is a discipline with final average >= 7.0), whatever enroll,
\* unenroll, set-grades, update and delete requests have been handled.
C21_EnrolledHavePrerequisites ==
    \A st \in Stores : \A s \in DOMAIN st.enrollments :
        \A c \in Range(st.enrollments[s]) \cap DOMAIN st.disciplines :
            ~SomePrerequisiteUnmet(st, c)

\* The routes of api/disciplines.py and those of api/enrollments.py.
DisciplineOps == {"create_discipline", "update_discipline", "delete_discipline",
                  "set_grades", "import_csv"}
EnrollmentOps == {"enroll", "unenroll", "create_semester"}

\* C22: a write made by a discipline route leaves the persisted enrollment lists as
\* the enrollment routes last wrote them (a delete takes out the deleted code and
\* nothing else), and a write made by an enrollment route leaves the persisted
\* discipline records as the discipline routes last wrote them.
C22_WritesKeepOtherRoutesData ==
    [][/\ (last'.op \in DisciplineOps /\ steps' = steps + 1) =>
            files'.enrollments =
                IF last'.op = "delete_discipline" /\ last'.outcome = "Deleted"
                THEN [s \in DOMAIN files.enrollments |->
                        Without(files.enrollments[s], last'.discipline_code)]
                ELSE files.enrollments
       /\ (last'.op \in EnrollmentOps /\ steps' = steps + 1) =>
            files'.disciplines = files.disciplines]_vars

\* A grade of a request that is absent or outside [0, 10].
GradeOutside(n) == IsNone(n) \/ Val(n) < 0 \/ Val(n) > GRADE_MAX

\* C23: the grades route, called for a discipline that exists, fails when any of n1,
\* n2, n3 is absent or outside [0, 10] and then leaves the stored n1, n2, n3 and
\* final average as they were; otherwise it succeeds and stores the three grades of
\* the request together with the final average computed from them.
C23_GradesAllOrNothing ==
    [][\A c \in Codes \cap DOMAIN discDb.disciplines, g \in GradeBodies :
          set_grades(c, g) =>
             LET before == discDb.disciplines[c]
                 after == discDb'.disciplines[c]
             IN  IF \E n \in {g.n1, g.n2, g.n3} : GradeOutside(n)
                 THEN /\ last'.outcome \in {"GradesRequired", "ValueError"}
                      /\ after = before
                      /\ files' = files
                 ELSE /\ last'.outcome = "Graded"
                      /\ after.n1 = g.n1 /\ after.n2 = g.n2 /\ after.n3 = g.n3
                      /\ Graded(after)
                      /\ 2 * after.media_final[1]
                            - LargestPairSum(Val(g.n1), Val(g.n2), Val(g.n3)) \in {-1, 0, 1}
                      /\ [after EXCEPT !.n1 = before.n1, !.n2 = before.n2,
                                       !.n3 = before.n3,
                                       !.media_final = before.media_final] = before
                      /\ files'.disciplines[c] = after]_vars

\* C23 witness: a request with a grade absent or out of range was turned down for a
\* discipline that an earlier request had graded, and the grades are still there.
C23_Witness ==
    /\ last.op = "set_grades" /\ last.outcome \in {"GradesRequired", "ValueError"}
    /\ last.discipline_code \in DOMAIN discDb.disciplines
    /\ Graded(discDb.disciplines[last.discipline_code])

\* The lists Database.bulk_create_disciplines is given: up to two disciplines, with
\* a code the store has from the start and a code it has once created.
BulkInputs ==
    ListsUpTo({[code |-> c, name |-> "NOVA", professor |-> "P", period |-> 1,
                hours |-> 60, prerequisites |-> <<>>, schedules |-> <<>>] : c \in Codes}, 2)

\* C24: a create of a discipline whose code the discipline routes' store has, and a
\* create of a semester whose code the enrollment routes' store has, is turned down
\* and changes no store and no file (the record keeps its grades and final average,
\* the semester its enrollment list); a CSV import and a bulk create leave every
\* discipline record that exists, and every enrollment list, as they are.
C24_DuplicateCreateRejected ==
    [][/\ (Handled("create_discipline")
            /\ last'.discipline_code \in DOMAIN discDb.disciplines)
          => (last'.outcome = "AlreadyExists" /\ UNCHANGED <<discDb, enrDb, files>>)
       /\ (Handled("create_semester")
            /\ last'.semester_code \in DOMAIN enrDb.semesters)
          => (last'.outcome = "AlreadyExists" /\ UNCHANGED <<discDb, enrDb, files>>)
       /\ Handled("import_csv")
          => /\ \A c \in DOMAIN discDb.disciplines :
                   c \in DOMAIN discDb'.disciplines
                   /\ discDb'.disciplines[c] = discDb.disciplines[c]
             /\ discDb'.enrollments = discDb.enrollments
             /\ UNCHANGED enrDb
       /\ \A ds \in BulkInputs :
             LET st == bulk_create_disciplines(discDb, ds)
             IN  /\ \A c \in DOMAIN discDb.disciplines :
                       c \in DOMAIN st.disciplines
                       /\ st.disciplines[c] = discDb.disciplines[c]
                 /\ st.enrollments = discDb.enrollments
                 /\ st.semesters = discDb.semesters]_vars

\* C24 witness: a create was turned down for a discipline that has grades and a
\* final average, and they are still in the store.
C24_Witness ==
    /\ last.op = "create_discipline" /\ last.outcome = "AlreadyExists"
    /\ Graded(discDb.disciplines[last.discipline_code])
    /\ Graded(files.disciplines[last.discipline_code])

\* C25: for block lists A and B whose times are all well formed, has_schedule_conflict
\* reports a conflict for (A, B) exactly when it does for (B, A).
C25_ConflictVerdictSymmetric ==
    (/\ Done("has_schedule_conflict")
     /\ AllWellFormed(Args.discipline1_schedules)
     /\ AllWellFormed(Args.discipline2_schedules))
    => LET swapped == has_schedule_conflict(Args.discipline2_schedules,
                                            Args.discipline1_schedules)
       IN  /\ ~Ret.raised /\ ~swapped.raised
           /\ Ret.value.has_conflict <=> swapped.has_conflict

\* C25 witness: a call with well-formed blocks found a conflict whose details are
\* not those the call with the lists exchanged gives.
C25_Witness ==
    /\ Done("has_schedule_conflict") /\ ~Ret.raised
    /\ AllWellFormed(Args.discipline1_schedules) /\ AllWellFormed(Args.discipline2_schedules)
    /\ Ret.value.has_conflict
    /\ has_schedule_conflict(Args.discipline2_schedules,
                             Args.discipline1_schedules).info # Ret.value.info

====
